---- MODULE Spec2Model ----
(***************************************************************************)
(* A model of the HttpClient of src/lib/index.ts: one client, its          *)
(* configuration, and the lifecycle of the calls to request made on it.    *)
(*                                                                         *)
(* Strings the code inspects character by character (endpoint, path,       *)
(* URL) are sequences of one-character strings.  Other JavaScript values   *)
(* are TLA+ strings; the JavaScript value undefined is the string          *)
(* Undefined and null is the string Null, which no message, header or      *)
(* character of the model equals.                                          *)
(***************************************************************************)
EXTENDS Integers, Sequences, FiniteSets, TLC

Undefined == "undefined"
Null == "null"

\* JavaScript truthiness of a string-or-undefined value
Truthy(v) == v # Undefined /\ v # Null /\ v # ""

\* a || b
JsOr(a, b) == IF Truthy(a) THEN a ELSE b

---------------------------------------------------------------------------
(* Character strings *)

HTTP == <<"h", "t", "t", "p", ":", "/", "/">>
HTTPS == <<"h", "t", "t", "p", "s", ":", "/", "/">>

Letters == {"a", "b", "h", "i", "p", "q", "s", "t", "u", "v", "x"}
Digits == {"0", "1", "7"}

StartsWith(s, p) == Len(s) >= Len(p) /\ SubSeq(s, 1, Len(p)) = p

\* the least index of s holding a character of chars, Len(s) + 1 when none does
IndexOf(s, chars) ==
  IF \E i \in 1..Len(s) : s[i] \in chars
  THEN CHOOSE i \in 1..Len(s) : s[i] \in chars /\ \A j \in 1..(i - 1) : s[j] \notin chars
  ELSE Len(s) + 1

\* s from index i to its end
From(s, i) == SubSeq(s, i, Len(s))

\* encodeURIComponent of one character: unreserved characters are kept,
\* the others are percent-encoded
EncodeChar(ch) ==
  IF ch \in Letters \cup Digits \cup {".", "-", "_"} THEN <<ch>>
  ELSE IF ch = "/" THEN <<"%", "2", "F">>
  ELSE IF ch = ":" THEN <<"%", "3", "A">>
  ELSE IF ch = "?" THEN <<"%", "3", "F">>
  ELSE IF ch = "=" THEN <<"%", "3", "D">>
  ELSE <<"%", "2", "5">>

RECURSIVE encodeURIComponent(_)
encodeURIComponent(s) ==
  IF s = <<>> THEN <<>> ELSE EncodeChar(Head(s)) \o encodeURIComponent(Tail(s))

\* A parameter or query map: a sequence of <<key, value>> pairs in insertion
\* order, keys and values character strings.
HasKey(map, key) == \E i \in 1..Len(map) : map[i][1] = key
Get(map, key) == map[CHOOSE i \in 1..Len(map) : map[i][1] = key][2]

---------------------------------------------------------------------------
(* HttpClient.constructor *)

\* endpoint[endpoint.length - 1]: the last character, undefined for ""
LastChar(endpoint) == IF Len(endpoint) = 0 THEN Undefined ELSE endpoint[Len(endpoint)]

\* this.baseURL = endpoint[endpoint.length - 1] ? endpoint.slice(0, length - 1) : endpoint
ConstructBaseURL(endpoint) ==
  IF Truthy(LastChar(endpoint)) THEN SubSeq(endpoint, 1, Len(endpoint) - 1) ELSE endpoint

---------------------------------------------------------------------------
(* URL composition: interpolatePathParams, isExternalUrl, buildUrl *)

\* the length of the run of letters and digits of s that starts at index i
RECURSIVE AlnumRun(_, _)
AlnumRun(s, i) ==
  IF i <= Len(s) /\ s[i] \in Letters \cup Digits THEN 1 + AlnumRun(s, i + 1) ELSE 0

\* path.replace(/:([a-zA-Z][a-zA-Z0-9]*)/g, ...) read from index i on: every
\* ':' followed by a letter starts a token, whose key runs over the letters
\* and digits that follow.  A key with no entry in params throws.
RECURSIVE InterpolateFrom(_, _, _)
InterpolateFrom(path, params, i) ==
  IF i > Len(path) THEN [threw |-> FALSE, val |-> <<>>]
  ELSE IF path[i] = ":" /\ i < Len(path) /\ path[i + 1] \in Letters
  THEN LET n == AlnumRun(path, i + 1)
           key == SubSeq(path, i + 1, i + n)
           rest == InterpolateFrom(path, params, i + n + 1)
       IN IF ~HasKey(params, key) THEN [threw |-> TRUE, val |-> key]
          ELSE IF rest.threw THEN rest
          ELSE [threw |-> FALSE, val |-> encodeURIComponent(Get(params, key)) \o rest.val]
  ELSE LET rest == InterpolateFrom(path, params, i + 1)
       IN IF rest.threw THEN rest ELSE [threw |-> FALSE, val |-> <<path[i]>> \o rest.val]

interpolatePathParams(path, params) == InterpolateFrom(path, params, 1)

isExternalUrl(path) == StartsWith(path, HTTPS) \/ StartsWith(path, HTTP)

\* s without its leading '/' characters
RECURSIVE StripSlashes(_)
StripSlashes(s) == IF s # <<>> /\ Head(s) = "/" THEN StripSlashes(Tail(s)) ELSE s

\* new URL(s).toString() for the http(s) URLs of the model: the scheme, the
\* host (after any extra slashes), the path ("/" when empty) and the query.
\* A string with no http(s) scheme or no host is not a URL: new URL throws.
ParseURL(s) ==
  LET scheme == IF StartsWith(s, HTTPS) THEN HTTPS ELSE IF StartsWith(s, HTTP) THEN HTTP ELSE <<>>
      rest == StripSlashes(From(s, Len(scheme) + 1))
      hostEnd == IndexOf(rest, {"/", "?"})
      queryAt == IndexOf(rest, {"?"})
      host == SubSeq(rest, 1, hostEnd - 1)
      path == SubSeq(rest, hostEnd, queryAt - 1)
  IN [threw |-> scheme = <<>> \/ host = <<>>,
      href |-> scheme \o host \o (IF path = <<>> THEN <<"/">> ELSE path),
      search |-> From(rest, queryAt)]

\* url.searchParams.append(key, String(value)) for each entry, in map order
RECURSIVE AppendQuery(_, _)
AppendQuery(search, query) ==
  IF query = <<>> THEN search
  ELSE AppendQuery(search \o (IF search = <<>> THEN <<"?">> ELSE <<"&">>)
                     \o encodeURIComponent(query[1][1]) \o <<"=">>
                     \o encodeURIComponent(query[1][2]),
                   Tail(query))

\* An optional map argument is [given |-> BOOLEAN, map |-> pairs].
buildUrl(base, path, pathParams, queryParams) ==
  LET interpolated == IF pathParams.given THEN interpolatePathParams(path, pathParams.map)
                      ELSE [threw |-> FALSE, val |-> path]
      url == ParseURL(IF isExternalUrl(path) THEN interpolated.val ELSE base \o interpolated.val)
  IN IF interpolated.threw THEN [threw |-> TRUE, error |-> "MissingParameter", url |-> <<>>]
     ELSE IF url.threw THEN [threw |-> TRUE, error |-> "TypeError", url |-> <<>>]
     ELSE [threw |-> FALSE, error |-> "",
           url |-> url.href \o (IF queryParams.given THEN AppendQuery(url.search, queryParams.map)
                                ELSE url.search)]

---------------------------------------------------------------------------
(* Request headers and body: getContentType and the body rules of request *)

\* A Headers collection: a set of <<name, value>> pairs, one per name; the
\* names are lower-case, as Headers stores them.
HSet(headers, name, value) == {h \in headers : h[1] # name} \cup {<<name, value>>}

RECURSIVE HSetAll(_, _)
HSetAll(headers, entries) ==
  IF entries = <<>> THEN headers
  ELSE HSetAll(HSet(headers, entries[1][1], entries[1][2]), Tail(entries))

\* A body argument: kind is the JavaScript kind of the value; type is a
\* Blob's declared type, text a string's text, fields a plain object's
\* <<key, value>> entries, in insertion order.  A value of an object is a
\* number, a string, a boolean or null: <<"number", "1">>, <<"string", "a">>,
\* <<"literal", "true">>.
Data(kind, type, text, fields) == [kind |-> kind, type |-> type, text |-> text, fields |-> fields]
NoDataArg == Data("undefined", "", "", <<>>)

\* A variant that forgets the rule for strings
getContentTypeNoText(data) ==
  IF data.kind \in {"undefined", "null"} THEN Null
  ELSE IF data.kind = "FormData" THEN Null
  ELSE IF data.kind = "URLSearchParams" THEN "application/x-www-form-urlencoded"
  ELSE IF data.kind = "Blob" THEN JsOr(data.type, "application/octet-stream")
  ELSE "application/json"

getContentType(data) ==
  IF data.kind \in {"undefined", "null"} THEN Null
  ELSE IF data.kind = "FormData" THEN Null
  ELSE IF data.kind = "URLSearchParams" THEN "application/x-www-form-urlencoded"
  ELSE IF data.kind = "Blob" THEN JsOr(data.type, "application/octet-stream")
  ELSE IF data.kind = "string" THEN "text/plain"
  ELSE "application/json"

Num(v) == <<"number", v>>
Str(v) == <<"string", v>>
Lit(v) == <<"literal", v>>
Punct(ch) == <<"punct", ch>>

\* JSON.stringify of a plain object, as the sequence of the tokens of its
\* text: a key is written as a string token, a value as a token of its own
\* kind, with ':' between them and ',' between the entries.
RECURSIVE StringifyFields(_)
StringifyFields(fields) ==
  IF fields = <<>> THEN <<>>
  ELSE <<Str(fields[1][1]), Punct(":"), fields[1][2]>>
         \o (IF Len(fields) > 1 THEN <<Punct(",")>> ELSE <<>>) \o StringifyFields(Tail(fields))

JSONstringify(data) == <<Punct("{")>> \o StringifyFields(data.fields) \o <<Punct("}")>>

\* The body handed to fetch: none, the argument itself, or its JSON text.
NoBody == [kind |-> "none", data |-> NoDataArg, json |-> <<>>]

\* A variant that serializes a body for every method
RequestBodyAnyMethod(method, data) ==
  IF data.kind \in {"undefined", "null"} THEN NoBody
  ELSE IF data.kind \in {"FormData", "URLSearchParams", "Blob", "string"}
  THEN [kind |-> "unchanged", data |-> data, json |-> <<>>]
  ELSE [kind |-> "json", data |-> NoDataArg, json |-> JSONstringify(data)]

RequestBody(method, data) ==
  LET methodAllowsBody == method # "GET" /\ method # "HEAD"
  IN IF methodAllowsBody /\ data.kind \notin {"undefined", "null"}
     THEN IF data.kind \in {"FormData", "URLSearchParams", "Blob", "string"}
          THEN [kind |-> "unchanged", data |-> data, json |-> <<>>]
          ELSE [kind |-> "json", data |-> NoDataArg, json |-> JSONstringify(data)]
     ELSE NoBody

---------------------------------------------------------------------------
(* HttpResult, HttpError and the error formatters *)

\* A response body.  raw is its text; json says whether the text is JSON;
\* for a JSON object, message is its "message" field, hasError says whether
\* it has an "error" object and errorMessage is that object's "message".
Body(raw, json, message, hasError, errorMessage) ==
  [raw |-> raw, json |-> json, isNull |-> FALSE, message |-> message,
   hasError |-> hasError, errorMessage |-> errorMessage]
\* the JavaScript value null, which the catch of response.json() yields
NullValue == [raw |-> "", json |-> FALSE, isNull |-> TRUE, message |-> Undefined,
              hasError |-> FALSE, errorMessage |-> Undefined]

\* The data of a result or of an error: nothing, the raw Response object,
\* or a value decoded from the body ("json", "text") or returned by the
\* validator ("validated").
Value(kind, body) == [kind |-> kind, body |-> body]
NoValue == Value("none", NullValue)
ResponseObject == Value("Response", NullValue)

NoError == [type |-> "none", message |-> Undefined, status |-> 0, data |-> NoValue, errors |-> <<>>]
Success(data) == [success |-> TRUE, data |-> data, error |-> NoError]
Failure(error) == [success |-> FALSE, data |-> NoValue, error |-> error]
NoResult == Failure(NoError)

\* The default formatter of the constructor: (error) => error.message
DefaultFormat(error) == [threw |-> FALSE, val |-> error.message]

\* formatHttpError's message for a status code (the messages are written
\* here without their diacritics)
StatusMessage(status) ==
  IF status = 400
  THEN "A solicitacao contem dados incorretos. Verifique as informacoes enviadas."
  ELSE IF status = 401 THEN "E necessario fazer login para acessar esta funcao."
  ELSE IF status = 403 THEN "Acesso negado. Voce nao tem permissao para esta acao."
  ELSE IF status = 404 THEN "O recurso que voce procura nao foi encontrado."
  ELSE IF status = 429
  THEN "Muitas solicitacoes em pouco tempo. Tente novamente mais tarde."
  ELSE IF status = 500 THEN "Ocorreu um problema interno. Tente novamente mais tarde."
  ELSE "Houve um erro (" \o ToString(status) \o "). Tente novamente mais tarde."

\* error.data.message and error.data.error of formatHttpError: a Response
\* object has neither property; reading a property of null throws.
DataMessage(data) == IF data.kind = "Response" THEN Undefined ELSE data.body.message
DataHasError(data) == data.kind # "Response" /\ data.body.hasError

\* The bundled formatter.  For a 'response' error it reads
\* error.data.message, then error.data.error.message, which throws a
\* TypeError when error.data is null or error.data.error is undefined.
formatHttpError(error) ==
  IF error.type = "network" THEN [threw |-> FALSE, val |-> "Nao foi possivel estabelecer uma conexao. Verifique sua internet."]
  ELSE IF error.type = "timeout"
  THEN [threw |-> FALSE,
        val |-> "A operacao demorou mais do que o esperado. Tente novamente em alguns instantes."]
  ELSE IF error.type = "parse" THEN [threw |-> FALSE, val |-> "Ocorreu um problema ao processar a resposta."]
  ELSE IF error.type = "validation" THEN [threw |-> FALSE, val |-> "Os dados recebidos estao incorretos."]
  ELSE IF error.data.kind # "Response" /\ error.data.body.isNull THEN [threw |-> TRUE, val |-> Undefined]
  ELSE IF Truthy(DataMessage(error.data)) THEN [threw |-> FALSE, val |-> DataMessage(error.data)]
  ELSE IF ~DataHasError(error.data) THEN [threw |-> TRUE, val |-> Undefined]
  ELSE IF Truthy(error.data.body.errorMessage) THEN [threw |-> FALSE, val |-> error.data.body.errorMessage]
  ELSE [threw |-> FALSE, val |-> StatusMessage(error.status)]

\* A formatter a caller supplies: (error) => `[${error.type}]`
TagFormat(error) == [threw |-> FALSE, val |-> "[" \o error.type \o "]"]

\* config.errors.format applied to an error
Format(format, error) ==
  IF format = "default" THEN DefaultFormat(error)
  ELSE IF format = "formatHttpError" THEN formatHttpError(error)
  ELSE TagFormat(error)

\* A variant that invokes the formatter and drops what it returns
formatErrorUnassigned(format, result) ==
  IF ~result.success /\ format # "none"
  THEN [threw |-> Format(format, result.error).threw, calls |-> 1,
        result |-> IF Format(format, result.error).threw THEN NoResult ELSE result]
  ELSE [threw |-> FALSE, calls |-> 0, result |-> result]

\* formatError: a failure's message becomes the formatter's return value,
\* when config.errors has a formatter ("none": errors was given without
\* one).  calls counts the formatter's invocations.
formatError(format, result) ==
  IF ~result.success /\ format # "none"
  THEN LET f == Format(format, result.error)
       IN [threw |-> f.threw, calls |-> 1,
           result |-> IF f.threw THEN NoResult
                      ELSE Failure([result.error EXCEPT !.message = f.val])]
  ELSE [threw |-> FALSE, calls |-> 0, result |-> result]

---------------------------------------------------------------------------
(* HttpClient.parseResponse *)

\* response.ok
Ok(status) == status >= 200 /\ status <= 299

\* contentType?.includes('application/json'), over the content types of the model
IsJson(contentType) == contentType \in {"application/json", "application/json; charset=utf-8"}

\* A variant that forgets the fallback to error.message
ResponseMessageOnly(errorData) ==
  IF errorData.isNull THEN Undefined ELSE errorData.message

\* errorData?.message || errorData?.error?.message
ResponseMessage(errorData) ==
  IF errorData.isNull THEN Undefined
  ELSE JsOr(errorData.message, IF errorData.hasError THEN errorData.errorMessage ELSE Undefined)

\* The branch of a response that is not ok; errorData is the decoded body,
\* or null when response.json() failed.
ResponseFailure(format, response, errorData) ==
  formatError(format, Failure([type |-> "response", message |-> ResponseMessage(errorData),
                               status |-> response.status, data |-> ResponseObject,
                               errors |-> <<>>]))

\* The catch of parseResponse
ParseFailure(format) ==
  formatError(format, Failure([type |-> "parse", message |-> "Failed to parse response",
                               status |-> 0, data |-> NoValue, errors |-> <<>>]))

\* response.json() or response.text(), by the declared content type
Decode(response) ==
  IF IsJson(response.contentType)
  THEN [threw |-> ~response.body.json, data |-> Value("json", response.body)]
  ELSE [threw |-> FALSE, data |-> Value("text", response.body)]

\* isStandardSchema
isStandardSchema(schema) == schema.kind = "standard"

\* A variant that takes the message of the last issue
LastIssueMessage(issues) == issues[Len(issues)]

\* result.issues[0].message
FirstIssueMessage(issues) == issues[1]

\* The steps after the validator has answered.  A validator that throws, and
\* result.issues[0].message on an empty issue list, end in the catch; so does
\* a formatter that throws on the validation error.
Validated(format, schema, data) ==
  IF schema.outcome = "throws" THEN ParseFailure(format)
  ELSE IF schema.outcome = "issues"
  THEN IF schema.issues = <<>> THEN ParseFailure(format)
       ELSE LET f == formatError(format, Failure([type |-> "validation",
                                                  message |-> FirstIssueMessage(schema.issues),
                                                  status |-> 0, data |-> NoValue,
                                                  errors |-> schema.issues]))
                g == ParseFailure(format)
            IN IF f.threw THEN [g EXCEPT !.calls = f.calls + g.calls] ELSE f
  ELSE [threw |-> FALSE, calls |-> 0, result |-> Success(Value("validated", data.body))]

---------------------------------------------------------------------------
(* The client and its calls *)

NumCalls == 2
Calls == 1..NumCalls

DefaultTimeout == 30000

VARIABLES
  endpoint,       \* the endpoint the client was constructed with
  plugins,        \* the plugins the client was constructed with
  baseURL,        \* this.baseURL
  config,         \* this.config: headers (the supplier), timeout, format
  pc,             \* each call's position in request
  args,           \* each call's arguments
  timer,          \* the timer of each call's controller: none, armed, fired
  timerMs,        \* the delay each timer was armed with
  firedIn,        \* the position the call was in when its timer fired
  sent,           \* what each call handed to fetch
  response,       \* the response fetch resolved with
  result,         \* the HttpResult each call returned
  formatCalls,    \* how often each call invoked config.errors.format
  supplierCalls,  \* how often each call invoked config.headers
  unwrapped       \* what unwrap did with each call's result

clientVars == <<endpoint, plugins, baseURL, config>>
callVars == <<pc, args, timer, timerMs, firedIn, sent, response, result, formatCalls, supplierCalls>>
vars == <<endpoint, plugins, baseURL, config, pc, args, timer, timerMs, firedIn, sent, response,
          result, formatCalls, supplierCalls, unwrapped>>

Optional(given, map) == [given |-> given, map |-> map]
Absent == Optional(FALSE, <<>>)

NoSchema == [kind |-> "none", async |-> FALSE, outcome |-> "value", issues |-> <<>>]
NoTimeout == [given |-> FALSE, ms |-> 0]
NoArgs == [method |-> "", path |-> <<>>, data |-> NoDataArg, timeout |-> NoTimeout,
           headers |-> Absent, schema |-> NoSchema, search |-> Absent, params |-> Absent]
NotSent == [invoked |-> FALSE, method |-> "", url |-> <<>>, headers |-> {}, body |-> NoBody]
NoResponse == [status |-> 0, contentType |-> Null, body |-> NullValue]
NotUnwrapped == [called |-> FALSE, threw |-> FALSE, value |-> NoValue, error |-> Undefined]

\* The header supplier of the configuration: the constructor's () => ({}),
\* or one that returns an Authorization header.
Supplier(kind, details) ==
  IF kind = "auth" THEN <<<<"authorization", "Bearer t">>>> ELSE <<>>

\* new HttpClient(construction)
Construct(construction) ==
  /\ endpoint = construction.endpoint
  /\ plugins = construction.plugins
  /\ baseURL = ConstructBaseURL(construction.endpoint)
  /\ config = [headers |-> construction.headers,
               timeout |-> IF construction.timeout.given THEN construction.timeout.ms
                           ELSE DefaultTimeout,
               format |-> construction.format]

NoCalls ==
  /\ pc = [c \in Calls |-> "idle"]
  /\ args = [c \in Calls |-> NoArgs]
  /\ timer = [c \in Calls |-> "none"]
  /\ timerMs = [c \in Calls |-> 0]
  /\ firedIn = [c \in Calls |-> "-"]
  /\ sent = [c \in Calls |-> NotSent]
  /\ response = [c \in Calls |-> NoResponse]
  /\ result = [c \in Calls |-> NoResult]
  /\ formatCalls = [c \in Calls |-> 0]
  /\ supplierCalls = [c \in Calls |-> 0]
  /\ unwrapped = [c \in Calls |-> NotUnwrapped]

\* config?.timeout ?? this.config.timeout
RequestTimeout(a) == IF a.timeout.given THEN a.timeout.ms ELSE config.timeout

\* A variant that applies the supplier's headers to every path
RequestHeadersWithDefaults(a) ==
  IF a.headers.given THEN HSetAll(HSetAll({}, Supplier(config.headers, a)), a.headers.map)
  ELSE HSetAll({}, Supplier(config.headers, a))

\* The headers of a call before the content type is negotiated: the
\* supplier's for a path that is not external, then the call's own.
RequestHeaders(a) ==
  LET defaults == IF isExternalUrl(a.path) THEN {}
                  ELSE HSetAll({}, Supplier(config.headers, a))
  IN IF a.headers.given THEN HSetAll(defaults, a.headers.map) ELSE defaults

\* A variant that keeps a call's timeout as the client's
ConfigKeepsTimeout(a) == [config EXCEPT !.timeout = RequestTimeout(a)]

\* request assigns no field of the client.
ConfigAfterRequest(a) == config

\* A call leaves request: by returning out.result, or by raising when a
\* formatter threw outside the try of parseResponse.
Complete(c, out) ==
  /\ pc' = [pc EXCEPT ![c] = IF out.threw THEN "raised" ELSE "done"]
  /\ result' = [result EXCEPT ![c] = out.result]
  /\ formatCalls' = [formatCalls EXCEPT ![c] = @ + out.calls]

NetworkFailure ==
  Failure([type |-> "network", message |-> "Network request failed", status |-> 0,
           data |-> NoValue, errors |-> <<>>])
TimeoutFailure ==
  Failure([type |-> "timeout", message |-> "Request timed out", status |-> 0,
           data |-> NoValue, errors |-> <<>>])

\* request, up to the call of fetch: the timer is armed, the headers and the
\* body are built, and the URL is built inside the try, so that a throw of
\* buildUrl is caught and returned as a 'network' failure.
Request(c, a) ==
  /\ pc[c] = "idle"
  /\ LET body == RequestBody(a.method, a.data)
         contentType == getContentType(a.data)
         headers == IF body # NoBody /\ Truthy(contentType)
                    THEN HSet(RequestHeaders(a), "content-type", contentType)
                    ELSE RequestHeaders(a)
         built == buildUrl(baseURL, a.path, a.params, a.search)
     IN /\ args' = [args EXCEPT ![c] = a]
        /\ timer' = [timer EXCEPT ![c] = "armed"]
        /\ timerMs' = [timerMs EXCEPT ![c] = RequestTimeout(a)]
        /\ supplierCalls' = [supplierCalls EXCEPT ![c] = IF isExternalUrl(a.path) THEN 0 ELSE 1]
        /\ IF built.threw
           THEN /\ Complete(c, formatError(config.format, NetworkFailure))
                /\ UNCHANGED sent
           ELSE /\ sent' = [sent EXCEPT ![c] = [invoked |-> TRUE, method |-> a.method,
                                                url |-> built.url, headers |-> headers,
                                                body |-> body]]
                /\ pc' = [pc EXCEPT ![c] = "awaiting-transport"]
                /\ UNCHANGED <<result, formatCalls>>
  /\ config' = ConfigAfterRequest(a)
  /\ UNCHANGED <<endpoint, plugins, baseURL, firedIn, response, unwrapped>>

\* fetch rejects with an error that is not an AbortError
TransportFail(c) ==
  /\ pc[c] = "awaiting-transport"
  /\ Complete(c, formatError(config.format, NetworkFailure))
  /\ UNCHANGED <<clientVars, args, timer, timerMs, firedIn, sent, response, supplierCalls,
                 unwrapped>>

\* fetch resolves with a response; parseResponse starts reading its body
TransportRespond(c, r) ==
  /\ pc[c] = "awaiting-transport"
  /\ response' = [response EXCEPT ![c] = r]
  /\ pc' = [pc EXCEPT ![c] = "parsing"]
  /\ UNCHANGED <<clientVars, args, timer, timerMs, firedIn, sent, result, formatCalls,
                 supplierCalls, unwrapped>>

\* The body has been read: parseResponse runs to its return, or to the await
\* of a validator that answers with a promise.
BodyRead(c) ==
  /\ pc[c] = "parsing"
  /\ LET r == response[c]
         schema == args[c].schema
         decoded == Decode(r)
     IN IF ~Ok(r.status)
        THEN Complete(c, ResponseFailure(config.format, r,
                                         IF r.body.json THEN r.body ELSE NullValue))
        ELSE IF decoded.threw THEN Complete(c, ParseFailure(config.format))
        ELSE IF schema.kind # "none" /\ isStandardSchema(schema)
        THEN IF schema.async
             THEN /\ pc' = [pc EXCEPT ![c] = "validating"]
                  /\ UNCHANGED <<result, formatCalls>>
             ELSE Complete(c, Validated(config.format, schema, decoded.data))
        ELSE Complete(c, [threw |-> FALSE, calls |-> 0, result |-> Success(decoded.data)])
  /\ UNCHANGED <<clientVars, args, timer, timerMs, firedIn, sent, response, supplierCalls,
                 unwrapped>>

\* The validator's promise settles
ValidatorSettle(c) ==
  /\ pc[c] = "validating"
  /\ Complete(c, Validated(config.format, args[c].schema, Decode(response[c]).data))
  /\ UNCHANGED <<clientVars, args, timer, timerMs, firedIn, sent, response, supplierCalls,
                 unwrapped>>

\* The timer of createAbortController fires: controller.abort().  Nothing
\* ever clears the timer, so it fires in any position of the call.  fetch
\* rejects with an AbortError while it is awaited; a body being read rejects
\* its reader, which parseResponse takes for a body it cannot decode.
TimerFire(c) ==
  /\ timer[c] = "armed"
  /\ timer' = [timer EXCEPT ![c] = "fired"]
  /\ firedIn' = [firedIn EXCEPT ![c] = pc[c]]
  /\ IF pc[c] = "awaiting-transport"
     THEN Complete(c, formatError(config.format, TimeoutFailure))
     ELSE IF pc[c] = "parsing"
     THEN IF ~Ok(response[c].status)
          THEN Complete(c, ResponseFailure(config.format, response[c], NullValue))
          ELSE Complete(c, ParseFailure(config.format))
     ELSE UNCHANGED <<pc, result, formatCalls>>
  /\ UNCHANGED <<clientVars, args, timerMs, sent, response, supplierCalls, unwrapped>>

\* A variant that hands back the data of a failure instead of throwing
unwrapLenient(httpResult) ==
  [called |-> TRUE, threw |-> FALSE, value |-> httpResult.data, error |-> Undefined]

\* unwrap: throws new Error(response.error.message) for a failure, error
\* being the message the Error is built from; returns response.data otherwise.
unwrap(httpResult) ==
  IF ~httpResult.success
  THEN [called |-> TRUE, threw |-> TRUE, value |-> NoValue, error |-> httpResult.error.message]
  ELSE [called |-> TRUE, threw |-> FALSE, value |-> httpResult.data, error |-> Undefined]

\* The caller hands the result of a call to unwrap: http.get(...).then(http.unwrap)
Unwrap(c) ==
  /\ pc[c] = "done"
  /\ ~unwrapped[c].called
  /\ unwrapped' = [unwrapped EXCEPT ![c] = unwrap(result[c])]
  /\ UNCHANGED <<clientVars, callVars>>

---------------------------------------------------------------------------
(* The inputs: constructions, requests and responses *)

EndpointSlash == HTTPS \o <<"a", "b", "/">>
EndpointBare == HTTPS \o <<"a", "b">>
EndpointPath == HTTPS \o <<"a", "b", "/", "v">>
EndpointPathSlash == HTTPS \o <<"a", "b", "/", "v", "/">>

PathUsers == <<"/", "u">>
PathUser == <<"/", "u", "/", ":", "i">>
PathExternal == HTTPS \o <<"x", "/", "u">>
PathExternalUser == HTTP \o <<"x", "/", ":", "i">>

ParamsEmpty == Optional(TRUE, <<>>)
ParamsId == Optional(TRUE, <<<<(<<"i">>), (<<"7">>)>>>>)
ParamsSlash == Optional(TRUE, <<<<(<<"i">>), (<<"a", "/", "b">>)>>>>)
SearchQ == Optional(TRUE, <<<<(<<"q">>), (<<"1">>)>>>>)
HeadersOwn == Optional(TRUE, <<<<"x-a", "1">>>>)

Construction(e, h, t, f) ==
  [endpoint |-> e, headers |-> h, timeout |-> t, format |-> f, plugins |-> <<>>]
Formats == {"default", "formatHttpError", "tag", "none"}

Schema(async, outcome, issues) ==
  [kind |-> "standard", async |-> async, outcome |-> outcome, issues |-> issues]
NonStandardSchema == [kind |-> "nonstandard", async |-> FALSE, outcome |-> "value", issues |-> <<>>]
Issues == <<"id: expected string", "name: required">>
Schemas ==
  {NoSchema, NonStandardSchema}
    \cup {Schema(as, "value", <<>>) : as \in BOOLEAN}
    \cup {Schema(as, "issues", is) : as \in BOOLEAN, is \in {Issues, <<>>}}
    \cup {Schema(as, "throws", <<>>) : as \in BOOLEAN}

Get1(path) == [NoArgs EXCEPT !.method = "GET", !.path = path]

BodyNotFound == Body("{\"message\":\"not found\"}", TRUE, "not found", FALSE, Undefined)
BodyDenied == Body("{\"error\":{\"message\":\"denied\"}}", TRUE, Undefined, TRUE, "denied")
BodyEmptyObject == Body("{}", TRUE, Undefined, FALSE, Undefined)
BodyBlankMessage ==
  Body("{\"message\":\"\",\"error\":{\"message\":\"denied\"}}", TRUE, "", TRUE, "denied")
BodyText == Body("oops", FALSE, Undefined, FALSE, Undefined)
Bodies == {BodyNotFound, BodyDenied, BodyEmptyObject, BodyBlankMessage, BodyText}

Response(status, contentType, body) == [status |-> status, contentType |-> contentType, body |-> body]

\* One call, with every formatter, schema and response
Constructions == {Construction(EndpointSlash, "none", NoTimeout, f) : f \in Formats}
Requests ==
  {[Get1(PathUsers) EXCEPT !.schema = sc, !.timeout = t] :
     sc \in Schemas, t \in {NoTimeout, [given |-> TRUE, ms |-> 10]}}
    \cup {Get1(PathUser)}
Responses ==
  {Response(st, ct, b) : st \in {200, 404, 500},
                         ct \in {"application/json", "text/plain"}, b \in Bodies}

\* One call, with every endpoint, path, parameter map and query
UrlConstructions ==
  {Construction(e, h, NoTimeout, "default") :
     e \in {EndpointSlash, EndpointBare, EndpointPath, EndpointPathSlash},
     h \in {"none", "auth"}}
UrlRequests ==
  {[Get1(p) EXCEPT !.params = pm, !.search = q, !.headers = h] :
     p \in {PathUsers, PathUser, PathExternal, PathExternalUser},
     pm \in {Absent, ParamsEmpty, ParamsId, ParamsSlash},
     q \in {Absent, SearchQ}, h \in {Absent, HeadersOwn}}
    \cup {[Get1(PathUsers) EXCEPT !.schema = Schema(TRUE, "value", <<>>)]}
    \cup {[Get1(p) EXCEPT !.method = "POST", !.headers = h,
                          !.data = Data("object", "", "", <<<<"id", Num("1")>>>>)] :
            p \in {PathUsers, PathExternal}, h \in {Absent, HeadersOwn}}
UrlResponses ==
  {Response(200, "application/json", BodyEmptyObject),
   Response(404, "application/json", BodyNotFound)}

\* One call, with every method, body argument and content-type override
Methods == {"GET", "HEAD", "POST", "PUT", "PATCH", "DELETE"}
DataNull == Data("null", "", "", <<>>)
DataForm == Data("FormData", "", "", <<>>)
DataQuery == Data("URLSearchParams", "", "a=1", <<>>)
DataBlobTyped == Data("Blob", "image/png", "", <<>>)
DataBlobUntyped == Data("Blob", "", "", <<>>)
DataString == Data("string", "", "hello", <<>>)
DataEmptyString == Data("string", "", "", <<>>)
DataEmptyObject == Data("object", "", "", <<>>)
DataObject ==
  Data("object", "", "", <<<<"id", Num("1")>>, <<"name", Str("a")>>, <<"ok", Lit("true")>>,
                           <<"nil", Lit("null")>>>>)
DataArgs ==
  {NoDataArg, DataNull, DataForm, DataQuery, DataBlobTyped, DataBlobUntyped, DataString,
   DataEmptyString, DataEmptyObject, DataObject}
HeadersContentType == Optional(TRUE, <<<<"content-type", "text/csv">>>>)

BodyConstructions ==
  {Construction(EndpointSlash, h, NoTimeout, "default") : h \in {"none", "auth"}}
BodyRequests ==
  {[NoArgs EXCEPT !.method = m, !.path = p, !.data = d, !.headers = h] :
     m \in Methods, p \in {PathUsers, PathExternal}, d \in DataArgs,
     h \in {Absent, HeadersContentType}}
    \cup {[Get1(PathUsers) EXCEPT !.schema = Schema(TRUE, "value", <<>>)]}
BodyResponses ==
  {Response(200, "application/json", BodyEmptyObject),
   Response(404, "application/json", BodyNotFound)}

\* One call on a client constructed with plugins, as the README has them:
\* a plugin is an object with an onRequest and an onResponse hook.
Plugin(onRequest, onResponse) == [onRequest |-> onRequest, onResponse |-> onResponse]
\* onRequest sets the header x-plugin of the request
PluginHeader == Plugin("set x-plugin", "none")
\* onResponse returns a failure in place of every result
PluginReplace == Plugin("none", "replace with failure")
\* onResponse returns every failure with its message rewritten to "X"
PluginRewrite == Plugin("none", "rewrite message to X")

PluginConstructions ==
  {[Construction(EndpointSlash, "none", NoTimeout, f) EXCEPT !.plugins = ps] :
     f \in {"default", "tag"},
     ps \in {<<>>, <<PluginHeader>>, <<PluginReplace, PluginRewrite>>}}
PluginRequests ==
  {Get1(PathUsers), Get1(PathUser),
   [Get1(PathUsers) EXCEPT !.method = "POST", !.data = DataObject, !.headers = HeadersOwn,
                           !.schema = Schema(TRUE, "issues", Issues)]}
PluginResponses ==
  {Response(200, "application/json", BodyEmptyObject),
   Response(200, "application/json", BodyText),
   Response(404, "application/json", BodyNotFound)}

\* Concurrent calls on one client
ConcurrentConstructions ==
  {Construction(EndpointSlash, "auth", NoTimeout, f) : f \in {"default", "formatHttpError"}}
ConcurrentRequests ==
  {Get1(PathUsers),
   [Get1(PathUsers) EXCEPT !.timeout = [given |-> TRUE, ms |-> 10], !.headers = HeadersOwn,
                           !.schema = Schema(TRUE, "issues", Issues)],
   [Get1(PathUser) EXCEPT !.method = "POST", !.data = Data("object", "", "", <<<<"id", Num("1")>>>>)]}
ConcurrentResponses ==
  {Response(200, "application/json", BodyEmptyObject),
   Response(404, "application/json", BodyNotFound),
   Response(200, "application/json", BodyText)}

---------------------------------------------------------------------------
(* Specifications *)

\* The steps of the calls cs, with requests rq and responses rs
Lifecycle(cs, rq, rs) ==
  \E c \in cs :
    \/ \E a \in rq : Request(c, a)
    \/ TransportFail(c)
    \/ \E r \in rs : TransportRespond(c, r)
    \/ BodyRead(c)
    \/ ValidatorSettle(c)
    \/ TimerFire(c)

Init == (\E k \in Constructions : Construct(k)) /\ NoCalls
Next == Lifecycle({1}, Requests, Responses)
Spec == Init /\ [][Next]_vars

UrlInit == (\E k \in UrlConstructions : Construct(k)) /\ NoCalls
UrlNext == Lifecycle({1}, UrlRequests, UrlResponses)
UrlSpec == UrlInit /\ [][UrlNext]_vars

BodyInit == (\E k \in BodyConstructions : Construct(k)) /\ NoCalls
BodyNext == Lifecycle({1}, BodyRequests, BodyResponses)
BodySpec == BodyInit /\ [][BodyNext]_vars

PluginInit == (\E k \in PluginConstructions : Construct(k)) /\ NoCalls
PluginNext == Lifecycle({1}, PluginRequests, PluginResponses)
PluginSpec == PluginInit /\ [][PluginNext]_vars

\* One call, whose caller hands the result to unwrap
UnwrapNext == Next \/ \E c \in {1} : Unwrap(c)
UnwrapSpec == Init /\ [][UnwrapNext]_vars

ConcurrentInit == (\E k \in ConcurrentConstructions : Construct(k)) /\ NoCalls
ConcurrentNext == Lifecycle(Calls, ConcurrentRequests, ConcurrentResponses)
ConcurrentSpec == ConcurrentInit /\ [][ConcurrentNext]_vars

\* The event loop fires every armed timer, and a validator's promise
\* settles; the transport need not answer.
Fairness == \A c \in Calls : WF_vars(TimerFire(c)) /\ WF_vars(ValidatorSettle(c))
FairSpec == Spec /\ Fairness

---------------------------------------------------------------------------
(* Claims *)

Returned(c) == pc[c] = "done"
Left(c) == pc[c] \in {"done", "raised"}
Responded(c) == response[c] # NoResponse
\* the body of a response was decoded as JSON: it is JSON and its read was not aborted
DecodedJson(c) == response[c].body.json /\ firedIn[c] # "parsing"

\* Every call that the event loop serves leaves request, by returning or by raising.
Termination == \A c \in Calls : (pc[c] # "idle") ~> Left(c)

\* C1: no call to request raises, whatever the transport and the response do:
\* every failure is returned as a result.
C1_NeverRaises == \A c \in Calls : pc[c] # "raised"

\* C2: when the timer of a call elapsed while the call was in flight
\* (awaiting the transport, reading the body, validating), the result is a
\* Failure of type 'timeout'.
C2_TimerGivesTimeout ==
  \A c \in Calls :
    Returned(c) /\ firedIn[c] \in {"awaiting-transport", "parsing", "validating"}
      => ~result[c].success /\ result[c].error.type = "timeout"

\* C3: once a call has left request, the timer it armed is no longer pending.
C3_TimerDisarmed == \A c \in Calls : Left(c) => timer[c] # "armed"

\* C4: every call that has started eventually returns a result.
C4_EventuallyReturns == \A c \in Calls : (pc[c] # "idle") ~> Returned(c)

\* what a step may change of call c
CallState(c) ==
  <<pc[c], args[c], timer[c], timerMs[c], firedIn[c], sent[c], response[c], result[c],
    formatCalls[c], supplierCalls[c], unwrapped[c]>>

\* C5: no request changes the client's configuration; a step of one call
\* changes nothing of another call; and two calls with the same arguments,
\* the same answer of the transport and the same timing arm the same timer,
\* hand the same request to fetch and end with the same result.
C5_CallsIndependent ==
  /\ [][config' = config /\ baseURL' = baseURL]_vars
  /\ [][\A c \in Calls : CallState(c)' # CallState(c)
          => \A d \in Calls \ {c} : CallState(d)' = CallState(d)]_vars
  /\ [](\A c, d \in Calls :
          args[c] = args[d] /\ pc[c] # "idle" /\ pc[d] # "idle"
            => /\ timerMs[c] = timerMs[d]
               /\ sent[c] = sent[d]
               /\ (Left(c) /\ Left(d) /\ response[c] = response[d] /\ firedIn[c] = firedIn[d]
                     => pc[c] = pc[d] /\ result[c] = result[d]))

\* Two calls with different arguments are in flight at once, one of them a
\* call whose per-call timeout differs from the client's.
C5_Witness ==
  /\ pc[1] = "parsing" /\ pc[2] = "awaiting-transport"
  /\ args[1].timeout.given /\ ~args[2].timeout.given
  /\ timerMs[1] # timerMs[2]

\* the keys of the ':identifier' tokens of a path
Tokens(path) ==
  {SubSeq(path, i + 1, i + AlnumRun(path, i + 1)) :
     i \in {j \in 1..(Len(path) - 1) : path[j] = ":" /\ path[j + 1] \in Letters}}
\* a token of the call's path has no entry in its parameter map, or there is no map
Unresolved(a) ==
  \E key \in Tokens(a.path) : ~(a.params.given /\ HasKey(a.params.map, key))

\* C6: a call whose path has a token with no entry in the parameter map
\* never invokes the transport, and its result is a failure.
C6_MissingParameterFails ==
  \A c \in Calls :
    pc[c] # "idle" /\ Unresolved(args[c])
      => ~sent[c].invoked /\ (Returned(c) => ~result[c].success)

\* the endpoint without one trailing '/'
WithoutTrailingSlash(e) ==
  IF e # <<>> /\ e[Len(e)] = "/" THEN SubSeq(e, 1, Len(e) - 1) ELSE e

\* C7: the base address is the endpoint without one trailing '/', and the
\* URL of a relative request with no token and no query is that followed by
\* the path.
C7_BaseNormalized ==
  /\ baseURL = WithoutTrailingSlash(endpoint)
  /\ \A c \in Calls :
       sent[c].invoked /\ ~isExternalUrl(args[c].path) /\ Tokens(args[c].path) = {}
         /\ ~args[c].search.given
         => sent[c].url = WithoutTrailingSlash(endpoint) \o args[c].path

\* The result of a response that is not ok is a 'response' failure with the
\* response's status; with the default formatter and a decoded body, its
\* message is the given one.
ResponseFailureIs(c, message) ==
  Returned(c) /\ Responded(c) /\ ~Ok(response[c].status)
    => /\ ~result[c].success
       /\ result[c].error.type = "response"
       /\ result[c].error.status = response[c].status
       /\ (config.format = "default" /\ DecodedJson(c) => result[c].error.message = message)

ErrorMessageOf(body) == IF body.hasError THEN body.errorMessage ELSE Undefined
MessageWhenPresent(body) == IF body.message # Undefined THEN body.message ELSE ErrorMessageOf(body)
MessageWhenTruthy(body) == IF Truthy(body.message) THEN body.message ELSE ErrorMessageOf(body)

C9_DataIsDecodedBody ==
  \A c \in Calls :
    Returned(c) /\ Responded(c) /\ ~Ok(response[c].status)
      => result[c].error.data = IF DecodedJson(c) THEN Value("json", response[c].body)
                                ELSE ResponseObject

\* C10: the message of every returned failure is a defined, non-empty string.
C10_MessageNotEmpty ==
  \A c \in Calls : Returned(c) /\ ~result[c].success => Truthy(result[c].error.message)

\* the body of a response can be decoded: it is declared as JSON and is JSON, or is read as text
Decodable(r) == r.contentType = "application/json" => r.body.json

\* a call has returned whose response had a success status and a body that
\* was decoded, and whose schema is a recognized one
ValidatedCall(c) ==
  /\ Returned(c) /\ Responded(c)
  /\ response[c].status \in 200..299 /\ Decodable(response[c]) /\ firedIn[c] # "parsing"
  /\ args[c].schema.kind = "standard"

AbsolutePath(path) == StartsWith(path, HTTP) \/ StartsWith(path, HTTPS)
\* the entries of a map
Pairs(map) == {map[i] : i \in 1..Len(map)}
\* the per-request header overrides of a call
Overrides(a) == IF a.headers.given THEN Pairs(a.headers.map) ELSE {}

\* C12: a call whose path starts with 'http://' or 'https://' never invokes
\* the header supplier; the URL handed to the transport does not start with
\* the base address and, with nothing to interpolate and no query, is the
\* path itself; its headers are the per-request overrides and, at most, a
\* content type.  A call with any other path invokes the supplier, and the
\* URL handed to the transport starts with the base address and its headers
\* hold what the supplier returned.
C12_ExternalBypassesDefaults ==
  \A c \in Calls :
    pc[c] # "idle" =>
      IF AbsolutePath(args[c].path)
      THEN /\ supplierCalls[c] = 0
           /\ sent[c].invoked =>
                /\ ~StartsWith(sent[c].url, baseURL)
                /\ (~args[c].search.given /\ (~args[c].params.given \/ Tokens(args[c].path) = {})
                      => sent[c].url = args[c].path)
                /\ \A h \in sent[c].headers : h \in Overrides(args[c]) \/ h[1] = "content-type"
                /\ \A h \in Overrides(args[c]) : h[1] # "content-type" => h \in sent[c].headers
      ELSE /\ supplierCalls[c] = 1
           /\ sent[c].invoked =>
                /\ StartsWith(sent[c].url, baseURL)
                /\ (config.headers = "auth" => <<"authorization", "Bearer t">> \in sent[c].headers)

\* A POST of an object to an absolute path, with an override, on a client
\* whose supplier returns an Authorization header: the transport was called
\* with the path, the override and the content type, and the supplier was not.
C12_Witness ==
  /\ sent[1].invoked /\ args[1].path = PathExternal /\ config.headers = "auth"
  /\ supplierCalls[1] = 0 /\ sent[1].url = PathExternal
  /\ sent[1].headers = {<<"x-a", "1">>, <<"content-type", "application/json">>}

\* The entries read from the tokens after '{' or ',': a string token is a
\* key, ':' and a value token follow, then ',' and more entries, or '}'.
\* Any other token is a syntax error.
RECURSIVE ParseFields(_)
ParseFields(tokens) ==
  IF Len(tokens) < 4 \/ tokens[1][1] # "string" \/ tokens[2] # Punct(":")
       \/ tokens[3][1] = "punct"
  THEN [threw |-> TRUE, fields |-> <<>>]
  ELSE IF tokens[4] = Punct("}")
  THEN [threw |-> Len(tokens) # 4, fields |-> <<(<<tokens[1][2], tokens[3]>>)>>]
  ELSE IF tokens[4] = Punct(",")
  THEN LET rest == ParseFields(SubSeq(tokens, 5, Len(tokens)))
       IN [threw |-> rest.threw, fields |-> <<(<<tokens[1][2], tokens[3]>>)>> \o rest.fields]
  ELSE [threw |-> TRUE, fields |-> <<>>]

\* JSON.parse of the text of an object, which the receiver of a request
\* body applies
JSONparse(tokens) ==
  IF tokens = <<>> \/ tokens[1] # Punct("{") THEN [threw |-> TRUE, fields |-> <<>>]
  ELSE IF tokens = <<Punct("{"), Punct("}")>> THEN [threw |-> FALSE, fields |-> <<>>]
  ELSE ParseFields(Tail(tokens))

\* the content types among the headers handed to the transport
ContentTypes(c) == {h[2] : h \in {g \in sent[c].headers : g[1] = "content-type"}}
\* the content types the call's own overrides ask for
OverriddenTypes(a) == {h[2] : h \in {g \in Overrides(a) : g[1] = "content-type"}}

\* The policy table: the body and the content type for a body argument,
\* the first matching row winning.  type is Null where the row sets none.
Policy(data) ==
  IF data.kind \in {"undefined", "null"} THEN [body |-> "none", type |-> Null]
  ELSE IF data.kind = "FormData" THEN [body |-> "unchanged", type |-> Null]
  ELSE IF data.kind = "URLSearchParams"
  THEN [body |-> "unchanged", type |-> "application/x-www-form-urlencoded"]
  ELSE IF data.kind = "Blob"
  THEN [body |-> "unchanged",
        type |-> IF data.type # "" THEN data.type ELSE "application/octet-stream"]
  ELSE IF data.kind = "string" THEN [body |-> "unchanged", type |-> "text/plain"]
  ELSE [body |-> "json", type |-> "application/json"]

\* C13: for a method other than GET and HEAD, the body and the Content-Type
\* handed to the transport are those of the policy table: a body passed
\* unchanged is the argument itself, a row with no content type leaves the
\* header to the overrides, and the JSON text of an object decodes to an
\* object with the same entries.
C13_BodyPolicy ==
  \A c \in Calls :
    sent[c].invoked /\ args[c].method \notin {"GET", "HEAD"} =>
      LET row == Policy(args[c].data)
      IN /\ row.body = "none" => sent[c].body = NoBody
         /\ row.body = "unchanged"
               => sent[c].body.kind = "unchanged" /\ sent[c].body.data = args[c].data
         /\ row.body = "json"
               => /\ sent[c].body.kind = "json"
                  /\ JSONparse(sent[c].body.json) = [threw |-> FALSE, fields |-> args[c].data.fields]
         /\ ContentTypes(c) = IF row.type = Null THEN OverriddenTypes(args[c]) ELSE {row.type}

\* A POST of the object {id: 1, name: "a", ok: true, nil: null} has handed
\* its JSON text to the transport with 'application/json', over the call's
\* own content-type override.
C13_Witness ==
  /\ sent[1].invoked /\ args[1].method = "POST" /\ args[1].data = DataObject
  /\ args[1].headers = HeadersContentType
  /\ sent[1].body.kind = "json" /\ Len(sent[1].body.json) = 17
  /\ JSONparse(sent[1].body.json).fields = DataObject.fields
  /\ ContentTypes(1) = {"application/json"}

\* C14: for GET and HEAD, whatever the body argument, no body is handed to
\* the transport and the only Content-Type there is, is one of the call's
\* own overrides.
C14_NoBodyForGetAndHead ==
  \A c \in Calls :
    sent[c].invoked /\ args[c].method \in {"GET", "HEAD"} =>
      /\ sent[c].body = NoBody
      /\ ContentTypes(c) = OverriddenTypes(args[c])

\* A HEAD with an object as body argument and no override has called the
\* transport with no body and no Content-Type.
C14_Witness ==
  /\ sent[1].invoked /\ sent[1].method = "HEAD" /\ args[1].data = DataObject
  /\ ~args[1].headers.given
  /\ sent[1].body = NoBody /\ ContentTypes(1) = {}

\* C15: on a client with two plugins, the first returning a failure in
\* place of every result and the second rewriting every failure's message
\* to "X", the result of every call is a failure whose message is "X".
C15_ResponseHooksChain ==
  \A c \in Calls :
    Returned(c) /\ plugins = <<PluginReplace, PluginRewrite>>
      => ~result[c].success /\ result[c].error.message = "X"

\* C16: the transport is called after every plugin's onRequest hook has
\* run: the headers it is handed hold what the hooks have set.
C16_RequestHooksBeforeTransport ==
  \A c \in Calls :
    sent[c].invoked =>
      \A i \in 1..Len(plugins) :
        plugins[i].onRequest = "set x-plugin" => <<"x-plugin", "1">> \in sent[c].headers

\* the result has a 'headers' field
HasHeaders(r) == "headers" \in DOMAIN r
\* the header collection of a response of the model
HeadersOf(r) == {<<"content-type", r.contentType>>}

\* C17: a result returned after the transport produced a response has a
\* 'headers' field holding that response's headers; a result returned
\* before any response ('network', 'timeout') has none.
C17_ResultCarriesHeaders ==
  \A c \in Calls :
    Returned(c) =>
      IF Responded(c)
      THEN HasHeaders(result[c]) /\ result[c].headers = HeadersOf(response[c])
      ELSE ~HasHeaders(result[c])

\* C18: unwrap returns the data of a Success and throws nothing; for a
\* Failure it throws an Error built from the failure's message; and the
\* step of unwrap changes neither the result nor anything else of the call
\* or the client.
C18_Unwrap ==
  /\ [](\A c \in Calls :
          unwrapped[c].called =>
            IF result[c].success
            THEN ~unwrapped[c].threw /\ unwrapped[c].value = result[c].data
            ELSE unwrapped[c].threw /\ unwrapped[c].error = result[c].error.message)
  /\ [][(\E c \in Calls : unwrapped[c]' # unwrapped[c])
          => clientVars' = clientVars /\ callVars' = callVars]_vars

\* unwrap was given the success of a 200 and returned its data, the decoded body.
C18_Witness ==
  /\ unwrapped[1].called /\ ~unwrapped[1].threw
  /\ result[1].success /\ unwrapped[1].value = Value("json", BodyEmptyObject)

RawMessage(c) ==
  LET type == result[c].error.type
  IN IF type = "network" THEN "Network request failed"
     ELSE IF type = "timeout" THEN "Request timed out"
     ELSE IF type = "parse" THEN "Failed to parse response"
     ELSE IF type = "validation" THEN args[c].schema.issues[1]
     ELSE IF DecodedJson(c) THEN MessageWhenTruthy(response[c].body)
     ELSE Undefined

\* C20: a call that returned a Failure has invoked the configured formatter
\* once, on that failure's error, and the error's message is what the
\* formatter returned; a call that returned a Success has not invoked it.
\* With the default formatter the message is the one the failure was
\* created with.
C20_FormatterOnce ==
  \A c \in Calls :
    Returned(c) =>
      IF result[c].success THEN formatCalls[c] = 0
      ELSE /\ config.format # "none"
                => /\ formatCalls[c] = 1
                   /\ result[c].error.message
                        = Format(config.format,
                                 [result[c].error EXCEPT !.message = RawMessage(c)]).val
           /\ config.format = "default" => result[c].error.message = RawMessage(c)

\* A 404 on a client whose formatter returns `[${error.type}]` has given a
\* failure with the message '[response]' after one call of the formatter.
C20_Witness ==
  /\ Returned(1) /\ config.format = "tag" /\ response[1].status = 404
  /\ ~result[1].success /\ formatCalls[1] = 1 /\ result[1].error.message = "[response]"

\* a body with neither a 'message' nor an 'error.message'
NoMessageIn(body) == ~Truthy(body.message) /\ ~(body.hasError /\ Truthy(body.errorMessage))

\* the localized message the bundled formatter keys by the status code
LocalizedStatusMessage(status) ==
  IF status = 404 THEN "O recurso que voce procura nao foi encontrado."
  ELSE IF status = 500 THEN "Ocorreu um problema interno. Tente novamente mais tarde."
  ELSE "Houve um erro (" \o ToString(status) \o "). Tente novamente mais tarde."

\* C21: on a client constructed with formatHttpError as its formatter, the
\* formatter returns a string for every error of a call and the call returns
\* a Failure instead of raising; for a response that is not ok and whose
\* body has no 'message' and no 'error.message', the failure's message is
\* the one keyed by the status code.
C21_BundledFormatterNeverFails ==
  \A c \in Calls :
    config.format = "formatHttpError" /\ Left(c) =>
      /\ Returned(c)
      /\ ~result[c].success => Truthy(result[c].error.message)
      /\ (Responded(c) /\ response[c].status \notin 200..299 /\ NoMessageIn(response[c].body)
            => /\ ~result[c].success /\ result[c].error.type = "response"
               /\ result[c].error.message = LocalizedStatusMessage(response[c].status))

====
